---- MODULE Spec2Model ----
(* A state-machine model of the PPU of src/src/ppu.rs: the timing state      *)
(* machine of PPU::run, and the memory-mapped access of PPU::read_byte and   *)
(* PPU::write_byte.                                                           *)
EXTENDS Integers, FiniteSets, Sequences, TLC

(***************************************************************************)
(* Program constants                                                       *)
(***************************************************************************)
VRAM_SIZE == 8192
SCREEN_HEIGHT == 144
VBLANK_LINES == 10
OAM_CLOCKS == 80
VRAM_CLOCKS == 172
HBLANK_CLOCKS == 204
LINE_CLOCKS == 456

VRAM_FIRST == 32768      \* 0x8000
VRAM_LAST == 40959       \* 0x9fff
ADDR_LCDC == 65344       \* 0xff40
ADDR_STAT == 65345       \* 0xff41 (no arm in read_byte / write_byte)
ADDR_SCY == 65346        \* 0xff42
ADDR_SCX == 65347        \* 0xff43
ADDR_LY == 65348         \* 0xff44
ADDR_LYC == 65349        \* 0xff45 (no arm in read_byte / write_byte)
ADDR_BGP == 65351        \* 0xff47

LCD_ENABLE == 128
HBLANK_MODE == 0
VBLANK_MODE == 1
ACCESS_OAM_MODE == 2
ACCESS_VRAM_MODE == 3

Modes == {"HBlank", "VBlank", "AccessOAM", "AccessVRAM"}

(***************************************************************************)
(* Bounds of the model                                                     *)
(***************************************************************************)
\* In Spec, run is not called when the accumulator would pass this value
\* (the accumulator is a u32 that the single-transition run lets grow when
\* the ticks are larger than the budgets).
MaxClocks == 460

\* Values of tick passed to run in Spec: a few dot-clocks, one OAM scan, and
\* a whole line (more than any budget but that of VBlank).
Deltas == {4, 80, 456}
\* Small values of tick (a few dot-clocks per CPU instruction).
SmallDeltas == {4, 8, 12, 16, 20, 24}
\* Values of tick of at most one OAM scan (80), the smallest budget: the
\* least and the greatest of them.
Ticks80 == {1, 80}
\* The tick, of at most 80, used where run is called for ever.
LiveTicks == {80}
\* In SpecRegs, run is not called when it would take the PPU past this line.
MaxLine == 1
\* Bytes written by the host.
Bytes == {0, 85, 171}                    \* 0x00, 0x55, 0xab
\* Addresses in the VRAM window used by the host.
VramAddrs == {32768, 40959}              \* 0x8000, 0x9fff
\* Register addresses that write_byte supports.
RegAddrs == {ADDR_LCDC, ADDR_SCY, ADDR_SCX, ADDR_LY, ADDR_BGP}
\* Addresses with no arm in write_byte.
OtherAddrs == {ADDR_STAT, ADDR_LYC, 40960}

VARIABLES
    vram,       \* the cells of PPU.vram the host addresses
    mode,       \* PPU.mode
    bgp,        \* PPU.bgp
    clocks,     \* PPU.clocks
    ly,         \* PPU.ly
    stat,       \* PPU.stat (bits)
    scy,        \* PPU.scy
    scx,        \* PPU.scx
    control,    \* PPU.control (bits)
    panicked,   \* the unreachable!() of write_byte was hit
    op,         \* the last call: "new", "run", "read" or "write"
    addr,       \* the address of the last read or write (0 otherwise)
    val,        \* the byte written, the byte a read returned, 0 for run
    lastWrite,  \* history: the last write_byte to the VRAM window, as
                \* <<address, byte, mode was not AccessVRAM>>; <<>> if none
    elapsed     \* history: the sum of the ticks passed to run (SpecFrame)

ppu == <<vram, mode, bgp, clocks, ly, stat, scy, scx, control>>
vars == <<vram, mode, bgp, clocks, ly, stat, scy, scx, control, panicked,
          op, addr, val, lastWrite, elapsed>>

(***************************************************************************)
(* Bit operations on u8 / u16                                              *)
(***************************************************************************)
RECURSIVE BitAnd(_, _)
BitAnd(a, b) ==
    IF a = 0 \/ b = 0 THEN 0
    ELSE (a % 2) * (b % 2) + 2 * BitAnd(a \div 2, b \div 2)

RECURSIVE BitXor(_, _)
BitXor(a, b) ==
    IF a = 0 THEN b
    ELSE IF b = 0 THEN a
    ELSE ((a + b) % 2) + 2 * BitXor(a \div 2, b \div 2)

RECURSIVE BitOr(_, _)
BitOr(a, b) ==
    IF a = 0 THEN b
    ELSE IF b = 0 THEN a
    ELSE (IF a % 2 = 1 \/ b % 2 = 1 THEN 1 ELSE 0) + 2 * BitOr(a \div 2, b \div 2)

\* u8::wrapping_add(1)
WrappingInc(x) == (x + 1) % 256

\* Control::from_bits_truncate: all eight bits are named flags, so the
\* truncation keeps the low eight bits
FromBitsTruncate(v) == v % 256

\* Control::contains(LCD_ENABLE)
LcdEnabled(c) == (c \div LCD_ENABLE) % 2 = 1

\* addr & (VRAM_SIZE - 1): VRAM_SIZE is a power of two, so the mask keeps
\* the remainder
VramIndex(a) == a % VRAM_SIZE

VramCells == {VramIndex(a) : a \in VramAddrs}

InVram(a) == a >= VRAM_FIRST /\ a <= VRAM_LAST

\* The two-bit code of a mode in STAT
ModeCode(m) ==
    CASE m = "HBlank" -> HBLANK_MODE
      [] m = "VBlank" -> VBLANK_MODE
      [] m = "AccessOAM" -> ACCESS_OAM_MODE
      [] m = "AccessVRAM" -> ACCESS_VRAM_MODE

\* The budget of a mode in run
Budget(m) ==
    CASE m = "AccessOAM" -> OAM_CLOCKS
      [] m = "AccessVRAM" -> VRAM_CLOCKS
      [] m = "HBlank" -> HBLANK_CLOCKS
      [] m = "VBlank" -> LINE_CLOCKS

(***************************************************************************)
(* PPU::new                                                                *)
(***************************************************************************)
New ==
    /\ vram = [i \in VramCells |-> 0]
    /\ mode = "HBlank"
    /\ bgp = 0
    /\ clocks = 0
    /\ ly = 0
    /\ stat = 0
    /\ scy = 0
    /\ scx = 0
    /\ control = 0

Init ==
    /\ New
    /\ panicked = FALSE
    /\ op = "new"
    /\ addr = 0
    /\ val = 0
    /\ lastWrite = <<>>
    /\ elapsed = 0

(***************************************************************************)
(* PPU::run                                                                *)
(***************************************************************************)
\* the end of VBlank: self.ly >= SCREEN_HEIGHT + 10
VBlankDoneGt(l) == l > SCREEN_HEIGHT + VBLANK_LINES
VBlankDone(l) == l >= SCREEN_HEIGHT + VBLANK_LINES

\* the test of a budget: self.clocks >= budget
ReachedGt(c, budget) == c > budget
Reached(c, budget) == c >= budget

\* the mode that follows HBlank, chosen from the incremented ly
HBlankSuccessorBeforeInc(l1) ==
    IF l1 - 1 >= SCREEN_HEIGHT THEN "VBlank" ELSE "AccessOAM"
HBlankSuccessorGt(l1) == IF l1 > SCREEN_HEIGHT THEN "VBlank" ELSE "AccessOAM"
HBlankSuccessorSkipsOam(l1) ==
    IF l1 >= SCREEN_HEIGHT THEN "VBlank" ELSE "AccessVRAM"
HBlankSuccessorNoVBlank(l1) == "AccessOAM"
HBlankSuccessor(l1) == IF l1 >= SCREEN_HEIGHT THEN "VBlank" ELSE "AccessOAM"

\* the state of (mode, clocks, ly) after run(tick)
RunResult(m, c0, l, tick) ==
    LET c == c0 + tick IN
    CASE m = "AccessOAM" ->
            IF Reached(c, OAM_CLOCKS)
            THEN [mode |-> "AccessVRAM", clocks |-> c - OAM_CLOCKS, ly |-> l]
            ELSE [mode |-> m, clocks |-> c, ly |-> l]
      [] m = "AccessVRAM" ->
            IF Reached(c, VRAM_CLOCKS)
            THEN [mode |-> "HBlank", clocks |-> c - VRAM_CLOCKS, ly |-> l]
            ELSE [mode |-> m, clocks |-> c, ly |-> l]
      [] m = "HBlank" ->
            IF Reached(c, HBLANK_CLOCKS)
            THEN LET l1 == WrappingInc(l) IN
                 [mode |-> HBlankSuccessor(l1),
                  clocks |-> c - HBLANK_CLOCKS, ly |-> l1]
            ELSE [mode |-> m, clocks |-> c, ly |-> l]
      [] OTHER ->
            IF Reached(c, LINE_CLOCKS)
            THEN LET l1 == WrappingInc(l) IN
                 IF VBlankDone(l1)
                 THEN [mode |-> "AccessOAM", clocks |-> c - LINE_CLOCKS, ly |-> 0]
                 ELSE [mode |-> m, clocks |-> c - LINE_CLOCKS, ly |-> l1]
            ELSE [mode |-> m, clocks |-> c, ly |-> l]

RunCall(tick) ==
    /\ ~panicked
    /\ LET r == RunResult(mode, clocks, ly, tick) IN
        /\ mode' = r.mode
        /\ clocks' = r.clocks
        /\ ly' = r.ly
    /\ op' = "run"
    /\ addr' = 0
    /\ val' = 0
    /\ UNCHANGED <<vram, bgp, stat, scy, scx, control, panicked, lastWrite>>

(***************************************************************************)
(* PPU::read_byte                                                          *)
(***************************************************************************)
ReadResultUnlocked(a) ==
    IF InVram(a) THEN vram[VramIndex(a)]
    ELSE IF a = ADDR_LCDC THEN control
    ELSE IF a = ADDR_SCY THEN scy
    ELSE IF a = ADDR_SCX THEN scx
    ELSE IF a = ADDR_LY THEN ly
    ELSE IF a = ADDR_BGP THEN bgp
    ELSE 255
ReadResult(a) ==
    IF InVram(a) THEN (IF mode = "AccessVRAM" THEN 255 ELSE vram[VramIndex(a)])
    ELSE IF a = ADDR_LCDC THEN control
    ELSE IF a = ADDR_SCY THEN scy
    ELSE IF a = ADDR_SCX THEN scx
    ELSE IF a = ADDR_LY THEN ly
    ELSE IF a = ADDR_BGP THEN bgp
    ELSE 255

ReadCall(a) ==
    /\ ~panicked
    /\ op' = "read"
    /\ addr' = a
    /\ val' = ReadResult(a)
    /\ UNCHANGED <<ppu, panicked, lastWrite>>

(***************************************************************************)
(* PPU::write_byte                                                         *)
(***************************************************************************)
\* the VRAM arm: vram after write_byte(a, v)
VramAfterWriteUnlocked(a, v) == [vram EXCEPT ![VramIndex(a)] = v]
VramAfterWriteOffByOne(a, v) ==
    IF mode = "AccessVRAM" THEN vram
    ELSE [vram EXCEPT ![BitAnd(a, VRAM_SIZE)] = v]
VramAfterWrite(a, v) ==
    IF mode = "AccessVRAM" THEN vram
    ELSE [vram EXCEPT ![VramIndex(a)] = v]

\* the LCDC arm: stat after write_byte(0xff40, v)
StatAfterControl(v) ==
    LET cv == FromBitsTruncate(v) IN
    IF LcdEnabled(control) # LcdEnabled(cv)
    THEN BitOr(stat, IF LcdEnabled(cv) THEN ACCESS_OAM_MODE ELSE HBLANK_MODE)
    ELSE stat

\* the LY arm: 0xff44 => ()
LyAfterWriteStored(v) == v
LyAfterWrite(v) == ly

\* the LCDC arm: self.control = val
ControlAfterWriteToggled(v) == BitXor(control, FromBitsTruncate(v))
ControlAfterWrite(v) == FromBitsTruncate(v)

\* the LCDC arm toggles the LCD-enable bit
Toggles(v) == LcdEnabled(control) # LcdEnabled(FromBitsTruncate(v))

WriteCall(a, v) ==
    /\ ~panicked
    /\ op' = "write"
    /\ addr' = a
    /\ val' = v
    /\ IF InVram(a) THEN
            /\ vram' = VramAfterWrite(a, v)
            /\ lastWrite' = <<a, v, mode # "AccessVRAM">>
            /\ UNCHANGED <<mode, bgp, clocks, ly, stat, scy, scx, control, panicked>>
       ELSE IF a = ADDR_LCDC THEN
            /\ ly' = (IF Toggles(v) THEN 0 ELSE ly)
            /\ clocks' = (IF Toggles(v) THEN 0 ELSE clocks)
            /\ stat' = StatAfterControl(v)
            /\ control' = ControlAfterWrite(v)
            /\ UNCHANGED <<vram, mode, bgp, scy, scx, panicked, lastWrite>>
       ELSE IF a = ADDR_SCY THEN
            /\ scy' = v
            /\ UNCHANGED <<vram, mode, bgp, clocks, ly, stat, scx, control, panicked, lastWrite>>
       ELSE IF a = ADDR_SCX THEN
            /\ scx' = v
            /\ UNCHANGED <<vram, mode, bgp, clocks, ly, stat, scy, control, panicked, lastWrite>>
       ELSE IF a = ADDR_LY THEN \* read only
            /\ ly' = LyAfterWrite(v)
            /\ UNCHANGED <<vram, mode, bgp, clocks, stat, scy, scx, control, panicked, lastWrite>>
       ELSE IF a = ADDR_BGP THEN
            /\ bgp' = v
            /\ UNCHANGED <<vram, mode, clocks, ly, stat, scy, scx, control, panicked, lastWrite>>
       ELSE \* unreachable!(): the call panics
            /\ panicked' = TRUE
            /\ UNCHANGED <<ppu, lastWrite>>

(***************************************************************************)
(* Spec: the timing of the PPU. The host calls run with a tick from Deltas, *)
(* reads LY and writes LCDC, in any order.                                  *)
(***************************************************************************)
Run ==
    \E d \in Deltas :
        /\ clocks + d <= MaxClocks
        /\ RunCall(d)
        /\ UNCHANGED elapsed
ReadLine == ReadCall(ADDR_LY) /\ UNCHANGED elapsed
WriteControl == \E v \in Bytes : WriteCall(ADDR_LCDC, v) /\ UNCHANGED elapsed

Next == Run \/ ReadLine \/ WriteControl

Spec == Init /\ [][Next]_vars

(***************************************************************************)
(* SpecVram: the VRAM gate. The host calls run with a third of a line,      *)
(* which walks the PPU through every mode of every line, and reads and      *)
(* writes the VRAM window, in any order.                                    *)
(***************************************************************************)
RunThird == RunCall(LINE_CLOCKS \div 3) /\ UNCHANGED elapsed
ReadVram == \E a \in VramAddrs : ReadCall(a) /\ UNCHANGED elapsed
WriteVram == \E a \in VramAddrs, v \in Bytes : WriteCall(a, v) /\ UNCHANGED elapsed

NextVram == RunThird \/ ReadVram \/ WriteVram

SpecVram == Init /\ [][NextVram]_vars

(***************************************************************************)
(* SpecFrame: one frame. The host enables the LCD right after construction  *)
(* and then calls run with small ticks until a frame's worth of dot-clocks  *)
(* has passed.                                                              *)
(***************************************************************************)
FramePeriod == (SCREEN_HEIGHT + VBLANK_LINES) * LINE_CLOCKS

EnableLcd ==
    /\ op = "new"
    /\ \E v \in {x \in Bytes : LcdEnabled(x)} : WriteCall(ADDR_LCDC, v)
    /\ elapsed' = 0

RunSmall ==
    /\ op # "new"
    /\ \E d \in SmallDeltas :
        /\ elapsed + d <= FramePeriod
        /\ RunCall(d)
        /\ elapsed' = elapsed + d

NextFrame == EnableLcd \/ RunSmall

SpecFrame == Init /\ [][NextFrame]_vars

(***************************************************************************)
(* SpecSmall: every tick is at most 80. The host calls run with a tick from *)
(* Ticks80 and writes LCDC, in any order. The accumulator needs no cap.     *)
(***************************************************************************)
RunTick == \E d \in Ticks80 : RunCall(d) /\ UNCHANGED elapsed

NextSmall == RunTick \/ WriteControl

SpecSmall == Init /\ [][NextSmall]_vars

(***************************************************************************)
(* SpecLive: the host keeps calling run, with a tick from LiveTicks, and    *)
(* may write LCDC between the calls.                                        *)
(***************************************************************************)
RunLive == \E d \in LiveTicks : RunCall(d) /\ UNCHANGED elapsed

NextLive == RunLive \/ WriteControl

SpecLive == Init /\ [][NextLive]_vars /\ WF_vars(RunLive)

(***************************************************************************)
(* SpecRegs: the register file. On the first lines of the frame the host    *)
(* calls run with a third of a line, reads LY and STAT, and writes the VRAM *)
(* window, every register that write_byte supports and addresses that it    *)
(* does not, in any order.                                                  *)
(***************************************************************************)
SupportedAddrs == {VRAM_FIRST} \cup RegAddrs

RunEarly ==
    /\ RunCall(LINE_CLOCKS \div 3)
    /\ ly' <= MaxLine
    /\ UNCHANGED elapsed
ReadReg == \E a \in {ADDR_LY, ADDR_STAT} : ReadCall(a) /\ UNCHANGED elapsed
WriteAny ==
    \E a \in SupportedAddrs \cup OtherAddrs, v \in Bytes :
        WriteCall(a, v) /\ UNCHANGED elapsed

NextRegs == RunEarly \/ ReadReg \/ WriteAny

SpecRegs == Init /\ [][NextRegs]_vars

(***************************************************************************)
(* Claims                                                                  *)
(***************************************************************************)
LastLine == SCREEN_HEIGHT + VBLANK_LINES - 1

\* C1: after any sequence of run, read_byte and write_byte calls the
\* scanline counter is below 154.
C1_LyBelow154 == ly < SCREEN_HEIGHT + VBLANK_LINES

\* run has taken the PPU to the last line of VBlank, from which the next
\* line completion wraps ly
C1_Witness == op = "run" /\ mode = "VBlank" /\ ly = LastLine /\ LcdEnabled(control)

\* C2: in every reachable state, mode is VBlank if and only if ly >= 144.
C2_VBlankIffLine == (mode = "VBlank") <=> (ly >= SCREEN_HEIGHT)

\* C3: in every reachable state the two low bits of stat are the code of
\* the current mode.
C3_StatModeBits == stat % 4 = ModeCode(mode)

\* C4: right after run returns, clocks is below the budget of the mode the
\* PPU is then in.
C4_ClocksUnderBudget == op = "run" => clocks < Budget(mode)

\* C5: a write_byte to the VRAM window while mode is AccessVRAM leaves vram
\* and every other field of the PPU unchanged.
C5_LockedWriteDiscarded ==
    [][(mode = "AccessVRAM" /\ op' = "write" /\ InVram(addr')) => UNCHANGED ppu]_vars

\* a byte was written to the window during AccessVRAM and the cell holds
\* another byte
C5_Witness ==
    /\ op = "write"
    /\ InVram(addr)
    /\ mode = "AccessVRAM"
    /\ vram[VramIndex(addr)] # val

\* C6: a read_byte of the VRAM window returns 0xff while mode is AccessVRAM,
\* whatever the cell holds, and the cell's byte in every other mode.
C6_ReadGate ==
    (op = "read" /\ InVram(addr)) =>
        val = (IF mode = "AccessVRAM" THEN 255 ELSE vram[VramIndex(addr)])

\* a read during AccessVRAM returned 0xff from a cell that holds a byte the
\* host stored
C6_Witness ==
    /\ op = "read"
    /\ InVram(addr)
    /\ mode = "AccessVRAM"
    /\ val = 255
    /\ vram[VramIndex(addr)] \in Bytes \ {0}

\* C7: a write_byte(a, v) to the VRAM window outside AccessVRAM changes only
\* the cell a & 0x1fff, and a later read_byte(a) outside AccessVRAM, with no
\* VRAM write in between, returns v.
C7_RoundTrip ==
    [][ /\ (op' = "write" /\ InVram(addr')) =>
            /\ \A i \in VramCells \ {VramIndex(addr')} : vram'[i] = vram[i]
            /\ UNCHANGED <<mode, bgp, clocks, ly, stat, scy, scx, control>>
        /\ ( /\ op' = "read"
             /\ lastWrite' # <<>>
             /\ lastWrite'[3]
             /\ addr' = lastWrite'[1]
             /\ mode' # "AccessVRAM" ) => val' = lastWrite'[2]
      ]_vars

\* a byte stored in HBlank is read back in VBlank, after calls of run and
\* with another byte in the other cell
C7_Witness ==
    /\ op = "read"
    /\ lastWrite # <<>>
    /\ lastWrite[3]
    /\ addr = lastWrite[1]
    /\ mode = "VBlank"
    /\ val = lastWrite[2]
    /\ val # 0
    /\ \E i \in VramCells \ {VramIndex(addr)} : vram[i] \notin {0, val}

\* C8: from new() and a write of LCDC with the LCD-enable bit set, calls of
\* run with small ticks that sum to 70224 leave ly = 0 and mode = AccessOAM.
C8_FramePeriod == elapsed = FramePeriod => (ly = 0 /\ mode = "AccessOAM")

\* C9: a write of LCDC that clears the LCD-enable bit while it is set results
\* in ly = 0, clocks = 0 and mode = HBlank.
C9_DisableResets ==
    [][ ( /\ op' = "write"
          /\ addr' = ADDR_LCDC
          /\ LcdEnabled(control)
          /\ ~LcdEnabled(val') ) =>
        (ly' = 0 /\ clocks' = 0 /\ mode' = "HBlank") ]_vars

\* C10: a write of LCDC that sets the LCD-enable bit while it is clear results
\* in ly = 0, clocks = 0 and mode = AccessOAM.
C10_EnableStartsOamScan ==
    [][ ( /\ op' = "write"
          /\ addr' = ADDR_LCDC
          /\ ~LcdEnabled(control)
          /\ LcdEnabled(val') ) =>
        (ly' = 0 /\ clocks' = 0 /\ mode' = "AccessOAM") ]_vars

\* C11: write_byte(0xff44, v) leaves ly and every other field of the PPU
\* unchanged, so a read_byte(0xff44) that follows returns the LY from before
\* the write.
C11_LyReadOnly ==
    [][ /\ (op' = "write" /\ addr' = ADDR_LY) => (UNCHANGED ppu /\ ~panicked')
        /\ (op = "write" /\ addr = ADDR_LY /\ op' = "read" /\ addr' = ADDR_LY) =>
            val' = ly
      ]_vars

\* a byte other than the current line was written to LY on a line after
\* line 0
C11_Witness ==
    /\ op = "write"
    /\ addr = ADDR_LY
    /\ ly > 0
    /\ val \notin {0, ly}

\* The registers of the register file (FF40..FF45, FF47).
ListedRegs == RegAddrs \cup {ADDR_STAT, ADDR_LYC}

\* C12: a write_byte to an address that is neither in the VRAM window nor a
\* listed register completes normally and leaves the PPU unchanged.
C12_UnlistedWriteIgnored ==
    [][ (op' = "write" /\ ~InVram(addr') /\ addr' \notin ListedRegs) =>
        (~panicked' /\ UNCHANGED ppu) ]_vars

\* C13: write_byte(0xff41, v) completes normally, sets bits 3..6 of stat to
\* those of v and leaves bits 0..2; a read_byte(0xff41) returns stat.
C13_StatWriteMerges ==
    [][ /\ (op' = "write" /\ addr' = ADDR_STAT) =>
            /\ ~panicked'
            /\ stat' % 8 = stat % 8
            /\ (stat' \div 8) % 16 = (val' \div 8) % 16
        /\ (op' = "read" /\ addr' = ADDR_STAT) => val' = stat
      ]_vars

\* C14: for every supported address and byte, a second write_byte(a, v)
\* right after the first leaves the PPU as the first left it.
C14_WriteIdempotent ==
    [][ ( /\ op = "write"
          /\ addr \in SupportedAddrs
          /\ op' = "write"
          /\ addr' = addr
          /\ val' = val ) => (UNCHANGED ppu /\ ~panicked') ]_vars

\* an LCDC write has set the LCD-enable bit during AccessVRAM, after clocks
\* and ly had advanced: ly and clocks are reset and stat has the inserted bit
C14_Witness ==
    /\ op = "write"
    /\ addr = ADDR_LCDC
    /\ LcdEnabled(val)
    /\ control = val
    /\ mode = "AccessVRAM"
    /\ ly = 0
    /\ clocks = 0
    /\ stat = ACCESS_OAM_MODE
    /\ bgp # 0

\* C15: a run in HBlank whose accumulated clocks reach 204 takes 204 off
\* clocks, increments ly first and then enters VBlank when the new ly is at
\* least 144 and AccessOAM otherwise; run(456) from new() gives ly = 1 and
\* mode = AccessOAM.
C15_HBlankAdvance ==
    [][ /\ (op' = "run" /\ mode = "HBlank") =>
            \E d \in Deltas :
                IF clocks + d >= HBLANK_CLOCKS
                THEN /\ clocks' = clocks + d - HBLANK_CLOCKS
                     /\ ly' = ly + 1
                     /\ mode' = (IF ly' >= SCREEN_HEIGHT THEN "VBlank" ELSE "AccessOAM")
                ELSE /\ clocks' = clocks + d
                     /\ ly' = ly
                     /\ mode' = mode
        /\ (op = "new" /\ op' = "run" /\ clocks' = LINE_CLOCKS - HBLANK_CLOCKS) =>
            (ly' = 1 /\ mode' = "AccessOAM")
      ]_vars

\* the HBlank of line 143 has just ended: ly is 144 and the PPU is in VBlank
\* with less than one tick on the accumulator
C15_Witness ==
    /\ op = "run"
    /\ mode = "VBlank"
    /\ ly = SCREEN_HEIGHT
    /\ clocks < 4

\* The line completions run still needs to leave VBlank: each one increments
\* ly, and VBlank is left when ly reaches 154.
RemainingVBlankLines == SCREEN_HEIGHT + VBLANK_LINES - ly

\* C16: from any state in VBlank the PPU leaves VBlank after at most 10 line
\* completions, and on leaving it sets ly to 0 and enters AccessOAM.
C16_VBlankTenLines ==
    [][ /\ mode' = "VBlank" => RemainingVBlankLines' <= VBLANK_LINES
        /\ (mode = "VBlank" /\ mode' # "VBlank") => (ly' = 0 /\ mode' = "AccessOAM")
      ]_vars

\* The successor relation of the modes.
ModeSuccessors ==
    { <<"AccessOAM", "AccessVRAM">>, <<"AccessVRAM", "HBlank">>,
      <<"HBlank", "AccessOAM">>, <<"HBlank", "VBlank">>, <<"VBlank", "AccessOAM">> }

\* C17: no step takes the PPU from a mode to a mode that is not one of its
\* successors; AccessVRAM is only entered from AccessOAM.
C17_ModeSuccession == [][mode' # mode => <<mode, mode'>> \in ModeSuccessors]_vars

\* run has entered AccessVRAM on a line after line 0, with the LCD enabled
C17_Witness ==
    /\ op = "run"
    /\ mode = "AccessVRAM"
    /\ clocks = 0
    /\ ly > 0
    /\ LcdEnabled(control)

\* C18: in every reachable state, ly >= 144 implies mode = VBlank.
C18_LateLinesAreVBlank == ly >= SCREEN_HEIGHT => mode = "VBlank"

\* the PPU is on a VBlank line after the LCD-enable bit has been toggled
\* (stat has the bit the LCDC arm inserts) and is now clear again
C18_Witness ==
    /\ ly > SCREEN_HEIGHT
    /\ mode = "VBlank"
    /\ stat = ACCESS_OAM_MODE
    /\ ~LcdEnabled(control)

\* C19: when every tick is between 1 and 80, clocks is below the budget of
\* the current mode after each run, under any interleaving with LCDC writes,
\* so clocks never exceeds 455.
C19_SmallTicksStayUnderBudget ==
    /\ op = "run" => clocks < Budget(mode)
    /\ clocks <= LINE_CLOCKS - 1

\* run has returned with the PPU in AccessOAM on line 0 and 79 on the
\* accumulator, one below the budget (as run(80) leaves it when it ends
\* VBlank from clocks = 455)
C19_Witness ==
    /\ op = "run"
    /\ mode = "AccessOAM"
    /\ ly = 0
    /\ clocks = OAM_CLOCKS - 1

\* a step is an LCDC write that toggles the LCD-enable bit
TogglingWrite ==
    /\ op' = "write"
    /\ addr' = ADDR_LCDC
    /\ LcdEnabled(control') # LcdEnabled(control)

\* C20: when run keeps being called with ticks of at most 80 and, from some
\* point on, no LCDC write toggles the LCD-enable bit, every mode is left
\* again, VBlank is entered again and again, and so is ly = 0 in AccessOAM.
C20_FrameRecurs ==
    <>[][~TogglingWrite]_vars =>
        /\ \A m \in Modes : [](mode = m => <>(mode # m))
        /\ []<>(mode = "VBlank")
        /\ []<>(ly = 0 /\ mode = "AccessOAM")

\* run has left VBlank at the end of the frame: line 0, AccessOAM, with the
\* LCD enabled
C20_Witness ==
    /\ op = "run"
    /\ mode = "AccessOAM"
    /\ ly = 0
    /\ clocks < OAM_CLOCKS
    /\ stat = ACCESS_OAM_MODE
    /\ LcdEnabled(control)

====
